---- MODULE Spec2Model ----
(***************************************************************************)
(* Model of the Eigen/Gurobi quadratic-programming adapter of             *)
(* src/src/Gurobi.cpp: the common base GurobiCommon and its dense and     *)
(* sparse specialisations.  The adapter object is the record `this`; its  *)
(* field model_ is the solver-side model (variables, constraints,          *)
(* objective, parameters) as the adapter's calls leave it.  The solver's   *)
(* own optimisation is outside the repository: optimize() is modelled as   *)
(* the solver reporting any status, iteration count and solution.          *)
(*                                                                         *)
(* Conventions.  C arrays, std::vector and Eigen storage are functions     *)
(* over 0..len-1, so that pointer arithmetic (vars_+i, vars.data()+len*i)  *)
(* and the column-major index r + rows*c read as in the source.  Doubles   *)
(* are small integers.  Objective coefficients are kept in units of 1/2    *)
(* (fixed point) so that the factor 0.5 of the quadratic part is exact.    *)
(***************************************************************************)
EXTENDS Integers, Sequences, FiniteSets, TLC

VARIABLES
    kind,   \* "dense" (GurobiDense) or "sparse" (GurobiSparse): the class of `this`
    this,   \* the adapter object: the fields of GurobiCommon, model_ included
    peer,   \* a second adapter object (a GurobiSparse), used by the paired runs
    call,   \* the most recent public call on `this` and what it returned or threw
    last    \* the most recent problem() or solve() on `this`: its arguments, the
            \* solver calls it made in order, what the solver reported, its result

vars == <<kind, this, peer, call, last>>

(***************************************************************************)
(* Bounds of the model.                                                    *)
(***************************************************************************)
\* largest nrvar passed to problem()
MaxVar == 2
\* largest nreq and nrineq passed to problem()
MaxCon == 2
\* number of problem() calls on one object
MaxProblems == 2
\* data sets 0..MaxData from which the arguments of solve() are generated
MaxData == 2
\* largest entry of the generated matrices and vectors
MaxVal == 2
\* runs 0..MaxSol of the solver: run r reports r barrier iterations and
\* solution r; also the possible contents of uninitialised storage
MaxSol == 1

(***************************************************************************)
(* Solver constants used by the adapter.                                   *)
(***************************************************************************)
GRB_LOADED == 1
GRB_OPTIMAL == 2
GRB_INFEASIBLE == 3
GRB_SUBOPTIMAL == 13
GRB_USER_OBJ_LIMIT == 15
\* every status code optimize() can leave behind
SolverStatuses == GRB_LOADED..GRB_USER_OBJ_LIMIT
\* default upper bound of a variable added without bounds
GRB_INFINITY == 1000

(***************************************************************************)
(* Arrays (functions over 0..len-1).                                       *)
(***************************************************************************)
EmptyArr == [i \in {} |-> 0]

Size(a) == Cardinality(DOMAIN a)

\* n copies of x
Fill(n, x) == [i \in 0..(n-1) |-> x]

\* a followed by b (vector::insert at end, push_back)
ArrCat(a, b) ==
    [i \in 0..(Size(a) + Size(b) - 1) |->
        IF i < Size(a) THEN a[i] ELSE b[i - Size(a)]]

Restrict(f, S) == [k \in S |-> f[k]]

\* f with key k bound to x; a zero coefficient is not stored
SetNZ(f, k, x) ==
    IF x = 0
    THEN Restrict(f, DOMAIN f \ {k})
    ELSE [j \in DOMAIN f \cup {k} |-> IF j = k THEN x ELSE f[j]]

GetNZ(f, k) == IF k \in DOMAIN f THEN f[k] ELSE 0

(***************************************************************************)
(* The solver model (GRBModel) as the adapter's calls change it.           *)
(*   vars    : live variable handle -> [lb, ub, vtype]                     *)
(*   constrs : live constraint handle -> [sense, rhs]                      *)
(*   coef    : <<constraint, variable>> -> nonzero coefficient             *)
(*   quad    : <<variable, variable>> -> nonzero objective coefficient     *)
(*   lin     : variable -> nonzero objective coefficient (both in halves)  *)
(*   nvarb, nconb : number of addVars / addConstrs calls so far; a handle  *)
(*             is <<number of the call that made it, index in the array>>  *)
(*   params  : the parameters the adapter reads and sets, at the solver's  *)
(*             defaults; a tolerance 1e-k is kept as its exponent k        *)
(***************************************************************************)
NewModel ==
    [vars |-> EmptyArr, constrs |-> EmptyArr, coef |-> EmptyArr,
     quad |-> EmptyArr, lin |-> EmptyArr, nvarb |-> 0, nconb |-> 0,
     params |-> [OutputFlag |-> 1, FeasibilityTol |-> 6,
                 OptimalityTol |-> 6, MultiObjMethod |-> -1]]

\* model_.set(param, value)
SetParam(m, param, value) == [m EXCEPT !.params[param] = value]

\* model_.get(param)
GetParam(m, param) == m.params[param]

\* model_.remove(GRBVar): the variable leaves the model with its coefficients
RemoveVar(m, v) ==
    [m EXCEPT !.vars = Restrict(@, DOMAIN @ \ {v}),
              !.coef = Restrict(@, {p \in DOMAIN @ : p[2] # v}),
              !.quad = Restrict(@, {p \in DOMAIN @ : p[1] # v /\ p[2] # v}),
              !.lin  = Restrict(@, DOMAIN @ \ {v})]

\* model_.remove(GRBConstr)
RemoveConstr(m, c) ==
    [m EXCEPT !.constrs = Restrict(@, DOMAIN @ \ {c}),
              !.coef = Restrict(@, {p \in DOMAIN @ : p[1] # c})]

\* the handles model_.addVars(n, type) returns
NewVarHandles(m, n) == [i \in 0..(n-1) |-> <<m.nvarb + 1, i>>]

\* model_.addVars(n, type): n new variables with bounds [0, infinity)
AddVars(m, n, type) ==
    LET hs == NewVarHandles(m, n)
        new == {hs[i] : i \in DOMAIN hs}
    IN [m EXCEPT !.nvarb = @ + 1,
                 !.vars = [v \in DOMAIN @ \cup new |->
                              IF v \in new
                              THEN [lb |-> 0, ub |-> GRB_INFINITY, vtype |-> type]
                              ELSE @[v]]]

\* model_.getVar(i): the variable at place i of the model, the variables
\* standing in the order they were added
GetVar(m, i) ==
    CHOOSE v \in DOMAIN m.vars :
        Cardinality({w \in DOMAIN m.vars :
                        w[1] < v[1] \/ (w[1] = v[1] /\ w[2] < v[2])}) = i

\* GRBVar::set(GRB_CharAttr_VType, type)
SetVType(m, v, type) == [m EXCEPT !.vars[v].vtype = type]

\* the handles model_.addConstrs(n) returns
NewConstrHandles(m, n) == [j \in 0..(n-1) |-> <<m.nconb + 1, j>>]

\* model_.addConstrs(n): n new empty constraints, sense '<', right-hand side 0
AddConstrs(m, n) ==
    LET hs == NewConstrHandles(m, n)
        new == {hs[j] : j \in DOMAIN hs}
    IN [m EXCEPT !.nconb = @ + 1,
                 !.constrs = [c \in DOMAIN @ \cup new |->
                                 IF c \in new
                                 THEN [sense |-> "<", rhs |-> 0]
                                 ELSE @[c]]]

\* model_.set(GRB_CharAttr_Sense, constrs, sense, len)
SetSense(m, constrs, sense, len) ==
    LET tgt == {constrs[j] : j \in 0..(len-1)}
    IN [m EXCEPT !.constrs = [c \in DOMAIN @ |->
                                 IF c \in tgt THEN [@[c] EXCEPT !.sense = sense]
                                 ELSE @[c]]]

(***************************************************************************)
(* Values.  Gen(d, k) is entry k of data set d: data set 0 is all zeros,   *)
(* the others mix zero and nonzero entries that differ from place to       *)
(* place.  SolGen(s, k) is component k of the solver's solution s, and of  *)
(* the contents of freshly allocated (uninitialised) storage.              *)
(***************************************************************************)
Gen(d, k) == (d * (k + 1)) % (MaxVal + 1)

SolGen(s, k) == (s + k) % (MaxSol + 1)

DataIds == 0..MaxData

SolIds == 0..MaxSol

(***************************************************************************)
(* GurobiCommon::GurobiCommon: all counts, status_ and iter_ are 0, the    *)
(* matrices and vectors are empty, the model is empty.  Q_, C_, Beq_ and   *)
(* Bineq_ are only ever resized, never written or read: they are kept as   *)
(* their shape.                                                            *)
(***************************************************************************)
GurobiCommon ==
    [Q_ |-> [rows |-> 0, cols |-> 0], C_ |-> [rows |-> 0],
     Beq_ |-> [rows |-> 0], Bineq_ |-> [rows |-> 0],
     X_ |-> EmptyArr, Yeq_ |-> EmptyArr, Yineq_ |-> EmptyArr,
     status_ |-> 0, nrvar_ |-> 0, nreq_ |-> 0, nrineq_ |-> 0, iter_ |-> 0,
     vars_ |-> EmptyArr, eqconstr_ |-> EmptyArr, ineqconstr_ |-> EmptyArr,
     lvars_ |-> EmptyArr, rvars_ |-> EmptyArr,
     eqvars_ |-> EmptyArr, ineqvars_ |-> EmptyArr,
     model_ |-> NewModel]

\* GurobiCommon::iter
iter(o) == o.iter_

\* (mutant of status: the wrong field is returned)
status_returnsIter(o) == o.iter_

\* GurobiCommon::status
status(o) == o.status_

\* (mutant of success: SUBOPTIMAL is not taken for a success)
success_onlyOptimal(o) == o.status_ = GRB_OPTIMAL

\* GurobiCommon::success
success(o) == o.status_ = GRB_OPTIMAL \/ o.status_ = GRB_SUBOPTIMAL

\* What an accessor does: the stored vector, or a thrown string literal.
Returned(v) == [threw |-> FALSE, value |-> v]

Thrown(msg) == [threw |-> TRUE, value |-> msg]

\* GurobiCommon::result
result(o) ==
    IF success(o) THEN Returned(o.X_)
    ELSE Thrown("solve unsuccessful; unable to retrieve result")

\* GurobiCommon::dual_eq
dual_eq(o) ==
    IF success(o) THEN Returned(o.Yeq_)
    ELSE Thrown("solve unsuccessful; unable to retrieve dual_eq")

\* GurobiCommon::dual_ineq
dual_ineq(o) ==
    IF success(o) THEN Returned(o.Yineq_)
    ELSE Thrown("solve unsuccessful; unable to retrieve dual_ineq")

(***************************************************************************)
(* GurobiCommon::problem                                                   *)
(***************************************************************************)
\* the loops model_.remove(*(arr+i)) for i < n
RECURSIVE RemoveVars(_, _, _)
RemoveVars(m, arr, n) ==
    IF n = 0 THEN m ELSE RemoveVar(RemoveVars(m, arr, n - 1), arr[n - 1])

RECURSIVE RemoveConstrs(_, _, _)
RemoveConstrs(m, arr, n) ==
    IF n = 0 THEN m ELSE RemoveConstr(RemoveConstrs(m, arr, n - 1), arr[n - 1])

\* (mutant of RemoveOld: the inequality constraints are not removed)
RemoveOld_keepIneq(o) ==
    RemoveConstrs(RemoveVars(o.model_, o.vars_, o.nrvar_), o.eqconstr_, o.nreq_)

\* The model after the three removal loops of problem().
RemoveOld(o) ==
    RemoveConstrs(
        RemoveConstrs(RemoveVars(o.model_, o.vars_, o.nrvar_),
                      o.eqconstr_, o.nreq_),
        o.ineqconstr_, o.nrineq_)

\* (mutant of clear: the vector keeps its handles)
clear_keep(v) == v

\* std::vector::clear
clear(v) == EmptyArr

\* Eigen resize of a vector: storage of the same size is kept as it is,
\* storage of another size is reallocated and holds the uninitialised values
\* g, an array of n values that nothing relates to each other or to the
\* contents of any other vector.
Resize(v, n, g) ==
    IF Size(v) = n THEN v ELSE g

\* the loop pushing *(vars_+i/nrvar) onto lvars_ for i < Q_.size()
PushLvars(v, varsArr, nrvar, qsize) ==
    ArrCat(v, [i \in 0..(qsize-1) |-> varsArr[i \div nrvar]])

\* the loop pushing *(vars_+i%nrvar) onto rvars_ for i < Q_.size()
PushRvars(v, varsArr, nrvar, qsize) ==
    ArrCat(v, [i \in 0..(qsize-1) |-> varsArr[i % nrvar]])

\* (mutant of InsertCopies: the handles are laid out constraint by constraint,
\* v0 v1 .. v0 v1 .., instead of variable by variable)
InsertCopies_interleaved(v, varsArr, nrvar, count) ==
    ArrCat(v, [p \in 0..(nrvar * count - 1) |-> varsArr[p % nrvar]])

\* the loop inserting `count` copies of *(vars_+i) at the end, for i < nrvar
RECURSIVE InsertCopies(_, _, _, _)
InsertCopies(v, varsArr, nrvar, count) ==
    IF nrvar = 0 THEN v
    ELSE ArrCat(InsertCopies(v, varsArr, nrvar - 1, count),
                Fill(count, varsArr[nrvar - 1]))

\* The solver calls problem() makes, in order.
ProblemTrace(o) ==
    [k \in 1..(o.nrvar_ + o.nreq_ + o.nrineq_) |-> "remove"]
    \o <<"addVars", "addConstrs", "setSense", "addConstrs", "setSense">>

\* problem(nrvar, nreq, nrineq) on object o; gX, gYeq and gYineq are the
\* uninitialised contents of X_, Yeq_ and Yineq_ where they are reallocated.
problem(o, nrvar, nreq, nrineq, gX, gYeq, gYineq) ==
    LET m0 == RemoveOld(o)
        vs == NewVarHandles(m0, nrvar)
        m1 == AddVars(m0, nrvar, "C")
        eqc == NewConstrHandles(m1, nreq)
        m2 == SetSense(AddConstrs(m1, nreq), eqc, "=", nreq)
        ineqc == NewConstrHandles(m2, nrineq)
        m3 == SetSense(AddConstrs(m2, nrineq), ineqc, "<", nrineq)
    IN [o EXCEPT
          !.nrvar_ = nrvar, !.nreq_ = nreq, !.nrineq_ = nrineq,
          !.Q_ = [rows |-> nrvar, cols |-> nrvar],
          !.C_ = [rows |-> nrvar],
          !.Beq_ = [rows |-> nreq],
          !.Bineq_ = [rows |-> nrineq],
          !.X_ = Resize(@, nrvar, gX),
          !.Yeq_ = Resize(@, nreq, gYeq),
          !.Yineq_ = Resize(@, nrineq, gYineq),
          !.vars_ = vs,
          !.lvars_ = PushLvars(clear(@), vs, nrvar, nrvar * nrvar),
          !.rvars_ = PushRvars(clear(@), vs, nrvar, nrvar * nrvar),
          !.eqconstr_ = eqc,
          !.eqvars_ = InsertCopies(clear(@), vs, nrvar, nreq),
          !.ineqconstr_ = ineqc,
          !.ineqvars_ = InsertCopies(clear(@), vs, nrvar, nrineq),
          !.model_ = m3]

(***************************************************************************)
(* Eigen containers.  A dense matrix is [rows, cols, data] with data in    *)
(* column-major order; a dense vector is its data.  A sparse matrix is     *)
(* [rows, cols, entries] with entries[<<r, c>>] the stored values (an      *)
(* InnerIterator over column k visits the stored <<r, k>>); a sparse       *)
(* vector is [rows, entries] with entries[r] the stored values.            *)
(***************************************************************************)
\* A(r, c) of a dense matrix
At(A, r, c) == A.data[r + A.rows * c]

\* A.size()
MatSize(A) == A.rows * A.cols

\* A.outerSize() of a column-major sparse matrix
OuterSize(A) == A.cols

\* the stored entries an InnerIterator(A, k) visits
ColEntries(A, k) == {p \in DOMAIN A.entries : p[2] = k}

\* the sparse matrix holding the nonzero entries of a dense one
SparseMat(A) ==
    [rows |-> A.rows, cols |-> A.cols,
     entries |-> [p \in {q \in (0..(A.rows-1)) \X (0..(A.cols-1)) :
                            At(A, q[1], q[2]) # 0} |-> At(A, p[1], p[2])]]

\* the sparse vector holding the nonzero entries of a dense one
SparseVec(b) ==
    [rows |-> Size(b),
     entries |-> [r \in {q \in DOMAIN b : b[q] # 0} |-> b[r]]]

\* The arguments of a dense solve() generated from data set d, conformant
\* with nrvar variables, nreq equality and nrineq inequality constraints.
DenseArgs(d, nrvar, nreq, nrineq) ==
    [Q |-> [rows |-> nrvar, cols |-> nrvar,
            data |-> [k \in 0..(nrvar*nrvar-1) |-> Gen(d, k)]],
     C |-> [k \in 0..(nrvar-1) |-> Gen(d, k + 1)],
     Aeq |-> [rows |-> nreq, cols |-> nrvar,
              data |-> [k \in 0..(nreq*nrvar-1) |-> Gen(d, k + 2)]],
     Beq |-> [k \in 0..(nreq-1) |-> Gen(d, k)],
     Aineq |-> [rows |-> nrineq, cols |-> nrvar,
                data |-> [k \in 0..(nrineq*nrvar-1) |-> Gen(d, k)]],
     Bineq |-> [k \in 0..(nrineq-1) |-> Gen(d, k + 1)],
     XL |-> [k \in 0..(nrvar-1) |-> Gen(d, k)],
     XU |-> [k \in 0..(nrvar-1) |-> Gen(d, k + 2)]]

\* The same arguments in sparse form (the bounds stay dense vectors).
SparseArgs(a) ==
    [Q |-> SparseMat(a.Q), C |-> SparseVec(a.C),
     Aeq |-> SparseMat(a.Aeq), Beq |-> SparseVec(a.Beq),
     Aineq |-> SparseMat(a.Aineq), Bineq |-> SparseVec(a.Bineq),
     XL |-> a.XL, XU |-> a.XU]

(***************************************************************************)
(* Solver expressions (GRBQuadExpr, GRBLinExpr): q maps <<var1, var2>> and *)
(* l maps var to the nonzero coefficient, in halves.                       *)
(***************************************************************************)
\* a double as a fixed-point number of halves
Fx(c) == 2 * c

\* 0.5 * x of a fixed-point number
Half(x) == x \div 2

EmptyExpr == [q |-> EmptyArr, l |-> EmptyArr]

\* expr.addTerm(c, v1, v2), c in halves
AddQTerm(e, c, v1, v2) ==
    [e EXCEPT !.q = SetNZ(@, <<v1, v2>>, GetNZ(@, <<v1, v2>>) + c)]

\* expr.addTerm(c, v), c in halves
AddLTerm(e, c, v) ==
    [e EXCEPT !.l = SetNZ(@, v, GetNZ(@, v) + c)]

\* qexpr.addTerms(coeffs, vars1, vars2, count)
RECURSIVE AddQTerms(_, _, _, _, _)
AddQTerms(e, coeffs, vars1, vars2, count) ==
    IF count = 0 THEN e
    ELSE AddQTerm(AddQTerms(e, coeffs, vars1, vars2, count - 1),
                  Fx(coeffs[count - 1]), vars1[count - 1], vars2[count - 1])

\* lexpr.addTerms(coeffs, vars, count)
RECURSIVE AddLTerms(_, _, _, _)
AddLTerms(e, coeffs, varsArr, count) ==
    IF count = 0 THEN e
    ELSE AddLTerm(AddLTerms(e, coeffs, varsArr, count - 1),
                  Fx(coeffs[count - 1]), varsArr[count - 1])

\* 0.5 * qexpr + lexpr
HalfPlus(qexpr, lexpr) ==
    [q |-> [p \in DOMAIN qexpr.q |-> Half(qexpr.q[p])],
     l |-> [v \in DOMAIN qexpr.l \cup DOMAIN lexpr.l |->
               Half(GetNZ(qexpr.l, v)) + GetNZ(lexpr.l, v)]]

\* model_.setObjective(expr): the objective is replaced
SetObjective(m, e) == [m EXCEPT !.quad = e.q, !.lin = e.l]

\* model_.set(GRB_DoubleAttr_LB, vars, vals, len)
RECURSIVE SetLB(_, _, _, _)
SetLB(m, varsArr, vals, len) ==
    IF len = 0 THEN m
    ELSE [SetLB(m, varsArr, vals, len - 1)
             EXCEPT !.vars[varsArr[len - 1]].lb = vals[len - 1]]

\* model_.set(GRB_DoubleAttr_UB, vars, vals, len)
RECURSIVE SetUB(_, _, _, _)
SetUB(m, varsArr, vals, len) ==
    IF len = 0 THEN m
    ELSE [SetUB(m, varsArr, vals, len - 1)
             EXCEPT !.vars[varsArr[len - 1]].ub = vals[len - 1]]

\* constr.set(GRB_DoubleAttr_RHS, value)
SetRHS1(m, c, value) == [m EXCEPT !.constrs[c].rhs = value]

\* model_.set(GRB_DoubleAttr_RHS, constrs, vals, len)
RECURSIVE SetRHS(_, _, _, _)
SetRHS(m, constrs, vals, len) ==
    IF len = 0 THEN m
    ELSE SetRHS1(SetRHS(m, constrs, vals, len - 1),
                 constrs[len - 1], vals[len - 1])

\* model_.chgCoeff(constr, var, value)
ChgCoeff(m, c, v, value) == [m EXCEPT !.coef = SetNZ(@, <<c, v>>, value)]

\* model_.chgCoeffs(constrs, vars + voff, vals + valoff, len): the
\* coefficient of vars[voff + t] in constrs[t] becomes vals[valoff + t]
RECURSIVE ChgCoeffs(_, _, _, _, _, _, _)
ChgCoeffs(m, constrs, varsArr, voff, vals, valoff, len) ==
    IF len = 0 THEN m
    ELSE ChgCoeff(ChgCoeffs(m, constrs, varsArr, voff, vals, valoff, len - 1),
                  constrs[len - 1], varsArr[voff + len - 1],
                  vals[valoff + len - 1])

(***************************************************************************)
(* model_.optimize() and the attributes read back.  The solver reports an  *)
(* outcome [status, iter, sol]; the model itself is left as handed over.   *)
(***************************************************************************)
OutcomesOf(S) == {[status |-> st, iter |-> r, sol |-> r] : st \in S, r \in SolIds}

\* model_.get(GRB_DoubleAttr_X, vars_, nrvar_)
GetX(out, n) == [i \in 0..(n-1) |-> SolGen(out.sol, i)]

\* model_.get(GRB_DoubleAttr_Pi, eqconstr_, nreq_)
GetPiEq(out, n) == [j \in 0..(n-1) |-> SolGen(out.sol, j + 1)]

\* model_.get(GRB_DoubleAttr_Pi, ineqconstr_, nrineq_)
GetPiIneq(out, n) == [j \in 0..(n-1) |-> SolGen(out.sol, j + 2)]

\* (mutant of ReadBack: the solution and the duals are copied whatever the status)
ReadBack_alwaysCopy(o, out) ==
    [o EXCEPT !.status_ = out.status, !.iter_ = out.iter,
              !.X_ = GetX(out, o.nrvar_),
              !.Yeq_ = GetPiEq(out, o.nreq_),
              !.Yineq_ = GetPiIneq(out, o.nrineq_)]

\* The tail of solve(): status and iteration count are stored; the solution
\* and the duals are copied only on success.
ReadBack(o, out) ==
    LET o1 == [o EXCEPT !.status_ = out.status, !.iter_ = out.iter]
    IN IF success(o1)
       THEN [o1 EXCEPT !.X_ = GetX(out, o.nrvar_),
                       !.Yeq_ = GetPiEq(out, o.nreq_),
                       !.Yineq_ = GetPiIneq(out, o.nrineq_)]
       ELSE o1

\* (mutant of ReadBackTrace: the solution and the duals are fetched whatever
\* the status)
ReadBackTrace_alwaysFetch(o, out) ==
    <<"optimize", "getStatus", "getBarIterCount", "getX", "getPi", "getPi">>

\* The solver calls of that tail, optimize included.
ReadBackTrace(o, out) ==
    <<"optimize", "getStatus", "getBarIterCount">>
    \o (IF success([o EXCEPT !.status_ = out.status])
        THEN <<"getX", "getPi", "getPi">> ELSE <<>>)

(***************************************************************************)
(* GurobiDense                                                             *)
(***************************************************************************)
\* the loop over the columns i < n of A in GurobiDense::updateConstr
RECURSIVE DenseColumns(_, _, _, _, _, _)
DenseColumns(m, constrs, varsArr, A, len, n) ==
    IF n = 0 THEN m
    ELSE ChgCoeffs(DenseColumns(m, constrs, varsArr, A, len, n - 1),
                   constrs, varsArr, len * (n - 1),
                   A.data, A.rows * (n - 1), A.rows)

\* GurobiDense::updateConstr on model m of object o
DenseUpdateConstr(o, m, constrs, varsArr, A, b, len) ==
    LET m1 == IF len > 0
              THEN DenseColumns(m, constrs, varsArr, A, len, o.nrvar_)
              ELSE m
    IN SetRHS(m1, constrs, b, len)

DenseUpdateTrace(o, len) ==
    (IF len > 0 THEN [k \in 1..o.nrvar_ |-> "chgCoeffs"] ELSE <<>>)
    \o <<"setRHS">>

\* GurobiDense::solve up to the call of optimize: the model handed over
DenseBuild(o, a) ==
    LET qexpr == AddQTerms(EmptyExpr, a.Q.data, o.rvars_, o.lvars_, MatSize(a.Q))
        lexpr == AddLTerms(EmptyExpr, a.C, o.vars_, o.nrvar_)
        m1 == SetObjective(o.model_, HalfPlus(qexpr, lexpr))
        m2 == SetLB(m1, o.vars_, a.XL, o.nrvar_)
        m3 == SetUB(m2, o.vars_, a.XU, o.nrvar_)
        m4 == DenseUpdateConstr(o, m3, o.eqconstr_, o.eqvars_, a.Aeq, a.Beq, o.nreq_)
    IN DenseUpdateConstr(o, m4, o.ineqconstr_, o.ineqvars_, a.Aineq, a.Bineq, o.nrineq_)

\* GurobiDense::solve with the solver reporting `out`
DenseSolveObj(o, a, out) == ReadBack([o EXCEPT !.model_ = DenseBuild(o, a)], out)

DenseSolveTrace(o, a, out) ==
    <<"setObjective", "setLB", "setUB">>
    \o DenseUpdateTrace(o, o.nreq_) \o DenseUpdateTrace(o, o.nrineq_)
    \o ReadBackTrace(o, out)

(***************************************************************************)
(* GurobiSparse                                                            *)
(***************************************************************************)
\* the inner loop of updateConstr: chgCoeff for every stored entry in S
RECURSIVE SparseEntries(_, _, _, _, _)
SparseEntries(m, constrs, varsArr, A, S) ==
    IF S = {} THEN m
    ELSE LET p == CHOOSE q \in S : TRUE
         IN ChgCoeff(SparseEntries(m, constrs, varsArr, A, S \ {p}),
                     constrs[p[1]], varsArr[p[2]], A.entries[p])

\* the loop over the columns k < n of A in GurobiSparse::updateConstr: the
\* column is zeroed, then its stored entries are set
RECURSIVE SparseColumns(_, _, _, _, _, _, _)
SparseColumns(o, m, constrs, varsArr, A, len, n) ==
    IF n = 0 THEN m
    ELSE SparseEntries(
             ChgCoeffs(SparseColumns(o, m, constrs, varsArr, A, len, n - 1),
                       constrs, varsArr, len * (n - 1), Fill(len, 0), 0, len),
             constrs, o.vars_, A, ColEntries(A, n - 1))

\* the loop setting the right-hand side of every stored entry of b
RECURSIVE SparseRHS(_, _, _, _)
SparseRHS(m, constrs, b, S) ==
    IF S = {} THEN m
    ELSE LET r == CHOOSE q \in S : TRUE
         IN SetRHS1(SparseRHS(m, constrs, b, S \ {r}), constrs[r], b.entries[r])

\* GurobiSparse::updateConstr on model m of object o
SparseUpdateConstr(o, m, constrs, varsArr, A, b, len) ==
    IF len > 0
    THEN SparseRHS(SparseColumns(o, m, constrs, varsArr, A, len, OuterSize(A)),
                   constrs, b, DOMAIN b.entries)
    ELSE m

RECURSIVE SparseColumnsTrace(_, _)
SparseColumnsTrace(A, n) ==
    IF n = 0 THEN <<>>
    ELSE SparseColumnsTrace(A, n - 1) \o <<"chgCoeffs">>
         \o [k \in 1..Cardinality(ColEntries(A, n - 1)) |-> "chgCoeff"]

SparseUpdateTrace(A, b, len) ==
    IF len > 0
    THEN SparseColumnsTrace(A, OuterSize(A))
         \o [k \in 1..Cardinality(DOMAIN b.entries) |-> "setRHS"]
    ELSE <<>>

\* the loops adding 0.5 * value * x_row * x_col for every stored entry of Q
RECURSIVE SparseQuad(_, _, _, _)
SparseQuad(e, varsArr, Q, S) ==
    IF S = {} THEN e
    ELSE LET p == CHOOSE q \in S : TRUE
         IN AddQTerm(SparseQuad(e, varsArr, Q, S \ {p}),
                     Half(Fx(Q.entries[p])), varsArr[p[1]], varsArr[p[2]])

\* the loop adding value * x_row for every stored entry of C
RECURSIVE SparseLin(_, _, _, _)
SparseLin(e, varsArr, C, S) ==
    IF S = {} THEN e
    ELSE LET r == CHOOSE q \in S : TRUE
         IN AddLTerm(SparseLin(e, varsArr, C, S \ {r}),
                     Fx(C.entries[r]), varsArr[r])

\* GurobiSparse::solve up to the call of optimize: the model handed over
SparseBuild(o, a) ==
    LET q1 == SparseQuad(EmptyExpr, o.vars_, a.Q, DOMAIN a.Q.entries)
        qexpr == SparseLin(q1, o.vars_, a.C, DOMAIN a.C.entries)
        m1 == SetObjective(o.model_, qexpr)
        m2 == SetLB(m1, o.vars_, a.XL, o.nrvar_)
        m3 == SetUB(m2, o.vars_, a.XU, o.nrvar_)
        m4 == SparseUpdateConstr(o, m3, o.eqconstr_, o.eqvars_, a.Aeq, a.Beq, o.nreq_)
    IN SparseUpdateConstr(o, m4, o.ineqconstr_, o.ineqvars_, a.Aineq, a.Bineq, o.nrineq_)

\* GurobiSparse::solve with the solver reporting `out`
SparseSolveObj(o, a, out) == ReadBack([o EXCEPT !.model_ = SparseBuild(o, a)], out)

SparseSolveTrace(o, a, out) ==
    <<"setObjective", "setLB", "setUB">>
    \o SparseUpdateTrace(a.Aeq, a.Beq, o.nreq_)
    \o SparseUpdateTrace(a.Aineq, a.Bineq, o.nrineq_)
    \o ReadBackTrace(o, out)

(***************************************************************************)
(* The state machine of one adapter object.  The actions take the sets     *)
(* their inputs are drawn from, so that the specifications below can       *)
(* explore all status codes on small problems and large problems on a      *)
(* sample of status codes.                                                 *)
(***************************************************************************)
NoArgs == <<>>

\* what `last` records of a solve: the values fetched from the solver, if any
Fetched(o, out) ==
    IF success([o EXCEPT !.status_ = out.status])
    THEN <<GetX(out, o.nrvar_), GetPiEq(out, o.nreq_), GetPiIneq(out, o.nrineq_)>>
    ELSE <<>>

\* `last` after problem(): what the most recent solve reported stays on record
LastOfProblem(o, lst, nrvar, nreq, nrineq) ==
    [lst EXCEPT !.op = "problem", !.dims = <<nrvar, nreq, nrineq>>,
                !.args = NoArgs, !.trace = ProblemTrace(o), !.fetched = <<>>,
                !.retyped = {}]

\* `last` after solve(): o the object before, o2 the object after the call
LastOfSolve(o, o2, lst, a, tr, out) ==
    [lst EXCEPT !.op = "solve", !.args = a, !.trace = tr, !.solved = TRUE,
                !.status = out.status, !.iter = out.iter,
                !.fetched = Fetched(o, out), !.ret = success(o2)]

\* op: the kind of the most recent problem()/solve() ("new": none yet);
\* dims: the arguments of the most recent problem(); args, trace: the
\* arguments and the solver calls of that most recent call; solved, status,
\* iter, ret: whether solve() was ever called, and what the solver reported
\* to and what was returned by the most recent one; fetched: the vectors
\* that solve() read from the solver, if it is the most recent call;
\* retyped: the variables setVariableType was called on since the most
\* recent problem().
Init ==
    /\ kind \in {"dense", "sparse"}
    /\ this = GurobiCommon
    /\ peer = GurobiCommon
    /\ call = [op |-> "new", ret |-> Returned(NoArgs)]
    /\ last = [op |-> "new", dims |-> <<0, 0, 0>>, args |-> NoArgs,
               trace |-> <<>>, solved |-> FALSE,
               status |-> 0, iter |-> 0, fetched |-> <<>>, ret |-> FALSE,
               retyped |-> {}]

\* what resize(n) can leave uninitialised in vector v, the memory holding
\* values of G: any n values where v is reallocated; where the storage is
\* kept nothing is uninitialised, and v itself stands for the unused choice
Uninit(v, n, G) == IF Size(v) = n THEN {v} ELSE [0..(n-1) -> G]

\* problem(nrvar, nreq, nrineq) with nrvar drawn from V, nreq and nrineq from
\* K, and with uninitialised memory holding values of G, each entry of each
\* reallocated vector a value of its own; also what the sized constructors run
ProblemIn(V, K, G) ==
    /\ this.model_.nvarb < MaxProblems
    /\ \E nrvar \in V, nreq \in K, nrineq \in K :
       \E gX \in Uninit(this.X_, nrvar, G), gYeq \in Uninit(this.Yeq_, nreq, G),
          gYineq \in Uninit(this.Yineq_, nrineq, G) :
          /\ this' = problem(this, nrvar, nreq, nrineq, gX, gYeq, gYineq)
          /\ call' = [op |-> "problem", ret |-> Returned(NoArgs)]
          /\ last' = LastOfProblem(this, last, nrvar, nreq, nrineq)
    /\ UNCHANGED <<kind, peer>>

\* GurobiDense::solve with conformant arguments, the solver reporting a
\* status of S and the arguments generated from a data set of D
DenseSolveIn(D, S) ==
    /\ kind = "dense"
    /\ \E d \in D, out \in OutcomesOf(S) :
          LET a == DenseArgs(d, this.nrvar_, this.nreq_, this.nrineq_)
              o == DenseSolveObj(this, a, out)
          IN /\ this' = o
             /\ call' = [op |-> "solve", ret |-> Returned(success(o))]
             /\ last' = LastOfSolve(this, o, last, a, DenseSolveTrace(this, a, out), out)
    /\ UNCHANGED <<kind, peer>>

\* GurobiSparse::solve with conformant arguments
SparseSolveIn(D, S) ==
    /\ kind = "sparse"
    /\ \E d \in D, out \in OutcomesOf(S) :
          LET a == SparseArgs(DenseArgs(d, this.nrvar_, this.nreq_, this.nrineq_))
              o == SparseSolveObj(this, a, out)
          IN /\ this' = o
             /\ call' = [op |-> "solve", ret |-> Returned(success(o))]
             /\ last' = LastOfSolve(this, o, last, a, SparseSolveTrace(this, a, out), out)
    /\ UNCHANGED <<kind, peer>>

\* result()
Result ==
    /\ call' = [op |-> "result", ret |-> result(this)]
    /\ UNCHANGED <<kind, this, peer, last>>

\* dual_eq()
DualEq ==
    /\ call' = [op |-> "dual_eq", ret |-> dual_eq(this)]
    /\ UNCHANGED <<kind, this, peer, last>>

\* dual_ineq()
DualIneq ==
    /\ call' = [op |-> "dual_ineq", ret |-> dual_ineq(this)]
    /\ UNCHANGED <<kind, this, peer, last>>

\* displayOutput(doDisplay)
displayOutput(o, doDisplay) ==
    [o EXCEPT !.model_ = SetParam(@, "OutputFlag", IF doDisplay THEN 1 ELSE 0)]

\* the tolerances 1e-k the setters are called with, as exponents k
TolExps == {6, 9}

\* feasibilityTolerance(tol), optimalityTolerance(tol): 1e-2 >= tol >= 1e-9
TolOk(k) == 2 <= k /\ k <= 9

\* feasibilityTolerance(tol)
feasibilityTolerance(o, k) ==
    [o EXCEPT !.model_ = SetParam(@, "FeasibilityTol", k)]

\* optimalityTolerance(tol)
optimalityTolerance(o, k) ==
    [o EXCEPT !.model_ = SetParam(@, "OptimalityTol", k)]

\* the warm start settings the setter is called with, as their integer values
WarmValues == {-1, 0}

\* warmStart(warmStatus)
warmStart(o, ws) ==
    [o EXCEPT !.model_ = SetParam(@, "MultiObjMethod", ws)]

\* the variable types setVariableType is called with: continuous, binary
VTypes == {"C", "B"}

\* setVariableType(varIndex, GRBType)
setVariableType(o, varIndex, GRBType) ==
    [o EXCEPT !.model_ = SetVType(@, GetVar(@, varIndex), GRBType)]

\* setVariableType(varIndex, GRBType) with the index of a variable of the
\* model
SetVariableType ==
    /\ \E varIndex \in 0..(Cardinality(DOMAIN this.model_.vars) - 1),
          GRBType \in VTypes :
          /\ this' = setVariableType(this, varIndex, GRBType)
          /\ last' = [last EXCEPT !.retyped = @ \cup {GetVar(this.model_, varIndex)}]
    /\ call' = [op |-> "setVariableType", ret |-> Returned(NoArgs)]
    /\ UNCHANGED <<kind, peer>>

DisplayOutput ==
    /\ \E b \in BOOLEAN : this' = displayOutput(this, b)
    /\ call' = [op |-> "displayOutput", ret |-> Returned(NoArgs)]
    /\ UNCHANGED <<kind, peer, last>>

FeasibilityTolerance ==
    /\ \E k \in TolExps : TolOk(k) /\ this' = feasibilityTolerance(this, k)
    /\ call' = [op |-> "feasibilityTolerance", ret |-> Returned(NoArgs)]
    /\ UNCHANGED <<kind, peer, last>>

OptimalityTolerance ==
    /\ \E k \in TolExps : TolOk(k) /\ this' = optimalityTolerance(this, k)
    /\ call' = [op |-> "optimalityTolerance", ret |-> Returned(NoArgs)]
    /\ UNCHANGED <<kind, peer, last>>

WarmStart ==
    /\ \E ws \in WarmValues : this' = warmStart(this, ws)
    /\ call' = [op |-> "warmStart", ret |-> Returned(NoArgs)]
    /\ UNCHANGED <<kind, peer, last>>

(***************************************************************************)
(* Spec: problem() and solve() with every status code the solver can       *)
(* report, on problems of no or one variable and one constraint of each    *)
(* kind.                                                                   *)
(***************************************************************************)
\* one data set with nonzero entries
OneData == {1}

\* no or one variable, no or one constraint
SmallCounts == {0, 1}

\* one variable
OneVar == {1}

\* one constraint of each kind
OneCon == {1}

Next ==
    \/ ProblemIn(SmallCounts, OneCon, SolIds)
    \/ DenseSolveIn(OneData, SolverStatuses)
    \/ SparseSolveIn(OneData, SolverStatuses)

Spec == Init /\ [][Next]_vars

(***************************************************************************)
(* SpecCalls: problem(), solve() and the throwing accessors, the solver    *)
(* reporting both successful statuses and a failing one.                   *)
(***************************************************************************)
NextCalls ==
    \/ ProblemIn(SmallCounts, SmallCounts, SolIds)
    \/ DenseSolveIn(OneData, {GRB_OPTIMAL, GRB_SUBOPTIMAL, GRB_INFEASIBLE})
    \/ SparseSolveIn(OneData, {GRB_OPTIMAL, GRB_SUBOPTIMAL, GRB_INFEASIBLE})
    \/ Result
    \/ DualEq
    \/ DualIneq

SpecCalls == Init /\ [][NextCalls]_vars

(***************************************************************************)
(* SpecAll: every public operation: problem(), solve(), the accessors, the *)
(* parameter setters and setVariableType(), on problems of one variable    *)
(* and at most one constraint of each kind that the solver solves to       *)
(* optimality.  The object starts without variables, so problem() both     *)
(* grows the model and replaces a model of equal size.                     *)
(***************************************************************************)
NextAll ==
    \/ ProblemIn(OneVar, SmallCounts, SolIds)
    \/ DenseSolveIn(OneData, {GRB_OPTIMAL})
    \/ SparseSolveIn(OneData, {GRB_OPTIMAL})
    \/ Result
    \/ DualEq
    \/ DualIneq
    \/ DisplayOutput
    \/ FeasibilityTolerance
    \/ OptimalityTolerance
    \/ WarmStart
    \/ SetVariableType

SpecAll == Init /\ [][NextAll]_vars

(***************************************************************************)
(* SpecWide: problems of up to MaxVar variables and MaxCon constraints of  *)
(* each kind (none, one or MaxVar variables; none or MaxCon constraints,   *)
(* which gives empty, single-column and MaxCon x MaxVar matrices), every   *)
(* data set, the solver reporting one successful and one failing status.   *)
(***************************************************************************)
VarCounts == {0, 1, MaxVar}

ConCounts == {0, MaxCon}

NextWide ==
    \/ ProblemIn(VarCounts, ConCounts, SolIds)
    \/ DenseSolveIn(DataIds, {GRB_OPTIMAL, GRB_INFEASIBLE})
    \/ SparseSolveIn(DataIds, {GRB_OPTIMAL, GRB_INFEASIBLE})

SpecWide == Init /\ [][NextWide]_vars

(***************************************************************************)
(* SpecPair: a GurobiDense (`this`) and a GurobiSparse (`peer`) configured *)
(* by the same problem() calls and driven by the same solve() calls, each  *)
(* call passing the same data in dense and in sparse form; problems of at  *)
(* most one variable and one constraint of each kind, the two objects'     *)
(* uninitialised storage holding values of their own.                      *)
(***************************************************************************)
\* what of a model the solver optimises: variables, constraints, coefficients
\* and objective (not the handle counters, not the parameters)
Handed(m) ==
    [vars |-> m.vars, constrs |-> m.constrs, coef |-> m.coef,
     quad |-> m.quad, lin |-> m.lin]

InitPair ==
    /\ Init
    /\ kind = "dense"

PairProblem ==
    /\ this.model_.nvarb < MaxProblems
    /\ \E nrvar \in SmallCounts, nreq \in SmallCounts, nrineq \in SmallCounts :
       \E gX \in Uninit(this.X_, nrvar, SolIds),
          gYeq \in Uninit(this.Yeq_, nreq, SolIds),
          gYineq \in Uninit(this.Yineq_, nrineq, SolIds),
          pX \in Uninit(peer.X_, nrvar, SolIds),
          pYeq \in Uninit(peer.Yeq_, nreq, SolIds),
          pYineq \in Uninit(peer.Yineq_, nrineq, SolIds) :
          /\ this' = problem(this, nrvar, nreq, nrineq, gX, gYeq, gYineq)
          /\ peer' = problem(peer, nrvar, nreq, nrineq, pX, pYeq, pYineq)
          /\ call' = [op |-> "problem", ret |-> Returned(NoArgs)]
          /\ last' = LastOfProblem(this, last, nrvar, nreq, nrineq)
    /\ UNCHANGED kind

\* The solver is handed both models and finds an optimum of each; given the
\* same model it reports the same outcome, given different models it may
\* report different ones.
PairSolve ==
    /\ \E d \in DataIds,
          out \in OutcomesOf({GRB_OPTIMAL}),
          outp \in OutcomesOf({GRB_OPTIMAL}) :
          LET a == DenseArgs(d, this.nrvar_, this.nreq_, this.nrineq_)
              o == DenseSolveObj(this, a, out)
              op == SparseSolveObj(peer, SparseArgs(a), outp)
          IN /\ Handed(o.model_) = Handed(op.model_) => outp = out
             /\ this' = o
             /\ peer' = op
             /\ call' = [op |-> "solve", ret |-> Returned(success(o))]
             /\ last' = LastOfSolve(this, o, last, a, DenseSolveTrace(this, a, out), out)
    /\ UNCHANGED kind

NextPair ==
    \/ PairProblem
    \/ PairSolve

SpecPair == InitPair /\ [][NextPair]_vars

(***************************************************************************)
(* Properties.                                                             *)
(***************************************************************************)
Accessors == {"result", "dual_eq", "dual_ineq"}

Successful == {GRB_OPTIMAL, GRB_SUBOPTIMAL}

\* the stored vector an accessor hands out
StoredOf(o, op) ==
    IF op = "result" THEN o.X_ ELSE IF op = "dual_eq" THEN o.Yeq_ ELSE o.Yineq_

\* C1: a call of result(), dual_eq() or dual_ineq() throws when the stored
\* status is neither OPTIMAL nor SUBOPTIMAL, returns the stored primal
\* vector / equality duals / inequality duals when it is, and in both cases
\* changes nothing of the adapter or the model.
C1_AccessorsThrowOrReturn ==
    [][call'.op \in Accessors =>
          /\ this' = this
          /\ call'.ret.threw = (this.status_ \notin Successful)
          /\ ~call'.ret.threw => call'.ret.value = StoredOf(this, call'.op)]_vars

C1_Witness ==
    /\ call.op = "dual_eq"
    /\ ~call.ret.threw
    /\ this.status_ = GRB_SUBOPTIMAL
    /\ Size(call.ret.value) = 1

\* C2: after every solve, status() is the status the solver reported for it,
\* whatever that status is; the call returned true exactly when the status
\* is OPTIMAL or SUBOPTIMAL; success() equals that return value until the
\* next solve, problem() calls in between included.
C2_StatusPassedThrough ==
    last.solved =>
        /\ status(this) = last.status
        /\ last.ret = (last.status \in Successful)
        /\ success(this) = last.ret
        /\ call.op = "solve" => call.ret.value = last.ret

C2_Witness ==
    /\ last.solved
    /\ last.op = "problem"
    /\ last.status = GRB_USER_OBJ_LIMIT
    /\ ~success(this)

\* C3: the solver model holds exactly nrvar variables, nreq constraints of
\* sense '=' and nrineq of sense '<', (nrvar, nreq, nrineq) being the
\* arguments of the most recent problem(): the handles of earlier problem()
\* calls are gone, and solve(), the accessors, the parameter setters and
\* setVariableType() keep the counts.  Every variable is continuous that
\* setVariableType() was not called on since the most recent problem(); so
\* after problem(), solve(), accessor and parameter setter calls alone, all
\* nrvar variables are.
C3_ModelCounts ==
    LET m == this.model_
    IN /\ Cardinality(DOMAIN m.vars) = last.dims[1]
       /\ \A v \in DOMAIN m.vars :
             /\ v[1] = m.nvarb
             /\ v \notin last.retyped => m.vars[v].vtype = "C"
       /\ last.retyped \subseteq DOMAIN m.vars
       /\ Cardinality({c \in DOMAIN m.constrs : m.constrs[c].sense = "="}) = last.dims[2]
       /\ Cardinality({c \in DOMAIN m.constrs : m.constrs[c].sense = "<"}) = last.dims[3]
       /\ Cardinality(DOMAIN m.constrs) = last.dims[2] + last.dims[3]
       /\ \A c \in DOMAIN m.constrs : c[1] \in {m.nconb - 1, m.nconb}

C3_Witness ==
    /\ this.model_.nvarb = 2
    /\ last.dims = <<1, 1, 1>>
    /\ last.op = "solve"
    /\ call.op = "warmStart"
    /\ this.model_.params.OutputFlag = 0
    /\ last.retyped = {}
    /\ \A v \in DOMAIN this.model_.vars : this.model_.vars[v].vtype = "C"

\* the places of `name` in a trace
Places(t, name) == {k \in 1..Len(t) : t[k] = name}

\* C4: in every solve() the objective, the bounds, the coefficients and the
\* right-hand sides are set before optimize; optimize is called exactly once
\* whatever the status; status and iteration count are read after it; the
\* solution and the duals are fetched after it and only on success; solve()
\* adds no variable and no constraint, problem() does.
C4_SolveCallOrder ==
    LET t == last.trace
        opt == Places(t, "optimize")
        before == {"setObjective", "setLB", "setUB", "chgCoeffs", "chgCoeff", "setRHS"}
        after == {"getStatus", "getBarIterCount", "getX", "getPi"}
    IN /\ last.op = "solve" =>
            /\ Cardinality(opt) = 1
            /\ \A k \in 1..Len(t), o \in opt :
                  /\ t[k] \in before => k < o
                  /\ t[k] \in after => k > o
            /\ \A k \in 1..Len(t) : t[k] \in before \cup after \cup {"optimize"}
            /\ \A name \in {"setObjective", "setLB", "setUB", "getStatus", "getBarIterCount"} :
                  Cardinality(Places(t, name)) = 1
            /\ Cardinality(Places(t, "getX")) = (IF last.status \in Successful THEN 1 ELSE 0)
            /\ Cardinality(Places(t, "getPi")) = (IF last.status \in Successful THEN 2 ELSE 0)
       /\ last.op = "problem" =>
            /\ Cardinality(Places(t, "addVars")) = 1
            /\ Cardinality(Places(t, "addConstrs")) = 2

C4_Witness ==
    /\ last.op = "solve"
    /\ kind = "sparse"
    /\ last.status = GRB_INFEASIBLE
    /\ last.dims = <<MaxVar, MaxCon, MaxCon>>
    /\ Cardinality(Places(last.trace, "chgCoeff")) > MaxCon
    /\ Cardinality(Places(last.trace, "setRHS")) > 1

\* A(j, i) and b(j) of sparse arguments: 0 where nothing is stored
SpAt(A, j, i) == GetNZ(A.entries, <<j, i>>)

SpVecAt(b, j) == GetNZ(b.entries, j)

\* C5: after a sparse solve the model handed to optimize is the data of the
\* current call: every coefficient is Aeq(j,i) (Aineq(j,i)) and every
\* right-hand side is Beq(j) (Bineq(j)), 0 where the sparse argument stores
\* no entry; nothing is carried over from earlier calls.
C5_SparseModelIsCurrentData ==
    (kind = "sparse" /\ last.op = "solve") =>
        LET a == last.args
            m == this.model_
        IN /\ \A j \in 0..(this.nreq_ - 1) :
                /\ m.constrs[this.eqconstr_[j]].rhs = SpVecAt(a.Beq, j)
                /\ \A i \in 0..(this.nrvar_ - 1) :
                      GetNZ(m.coef, <<this.eqconstr_[j], this.vars_[i]>>) = SpAt(a.Aeq, j, i)
           /\ \A j \in 0..(this.nrineq_ - 1) :
                /\ m.constrs[this.ineqconstr_[j]].rhs = SpVecAt(a.Bineq, j)
                /\ \A i \in 0..(this.nrvar_ - 1) :
                      GetNZ(m.coef, <<this.ineqconstr_[j], this.vars_[i]>>) = SpAt(a.Aineq, j, i)

\* C6: after a dense solve the model handed to optimize has the objective
\* 0.5 * sum Q(r,c) x_r x_c + sum C(i) x_i, the bounds XL(i), XU(i), the
\* coefficient Aeq(j,i) / Aineq(j,i) of variable i in constraint j and the
\* right-hand sides Beq(j) / Bineq(j), and nothing else.
C6_DenseModelIsCurrentData ==
    (kind = "dense" /\ last.op = "solve") =>
        LET a == last.args
            m == this.model_
            N == 0..(last.dims[1] - 1)
            x == this.vars_
        IN /\ \A r \in N, c \in N :
                GetNZ(m.quad, <<x[r], x[c]>>) = Half(Fx(At(a.Q, r, c)))
           /\ DOMAIN m.quad \subseteq {<<x[r], x[c]>> : r \in N, c \in N}
           /\ \A i \in N :
                /\ GetNZ(m.lin, x[i]) = Fx(a.C[i])
                /\ m.vars[x[i]].lb = a.XL[i]
                /\ m.vars[x[i]].ub = a.XU[i]
           /\ DOMAIN m.lin \subseteq {x[i] : i \in N}
           /\ \A j \in 0..(last.dims[2] - 1) :
                /\ m.constrs[this.eqconstr_[j]].rhs = a.Beq[j]
                /\ \A i \in N :
                      GetNZ(m.coef, <<this.eqconstr_[j], x[i]>>) = At(a.Aeq, j, i)
           /\ \A j \in 0..(last.dims[3] - 1) :
                /\ m.constrs[this.ineqconstr_[j]].rhs = a.Bineq[j]
                /\ \A i \in N :
                      GetNZ(m.coef, <<this.ineqconstr_[j], x[i]>>) = At(a.Aineq, j, i)

C6_Witness ==
    /\ kind = "dense"
    /\ last.op = "solve"
    /\ last.dims = <<MaxVar, MaxCon, MaxCon>>
    /\ this.model_.nvarb = 2
    /\ At(last.args.Aeq, 1, 0) # At(last.args.Aeq, 0, 1)
    /\ At(last.args.Q, 1, 0) # At(last.args.Q, 0, 1)
    /\ At(last.args.Aineq, 1, 0) # At(last.args.Aineq, 0, 1)

\* C7: the storage is sized by the counts of the most recent problem():
\* X_ and C_ nrvar, Yeq_ and Beq_ nreq, Yineq_ and Bineq_ nrineq, Q_ nrvar
\* by nrvar, lvars_ and rvars_ nrvar*nrvar handles, eqvars_ nrvar*nreq and
\* ineqvars_ nrvar*nrineq, after repeated problem() calls and after solve().
C7_StorageSizes ==
    LET n == last.dims[1]
        me == last.dims[2]
        mi == last.dims[3]
    IN /\ Size(this.X_) = n /\ this.C_.rows = n
       /\ Size(this.Yeq_) = me /\ this.Beq_.rows = me
       /\ Size(this.Yineq_) = mi /\ this.Bineq_.rows = mi
       /\ this.Q_ = [rows |-> n, cols |-> n]
       /\ Size(this.lvars_) = n * n /\ Size(this.rvars_) = n * n
       /\ Size(this.eqvars_) = n * me
       /\ Size(this.ineqvars_) = n * mi

C7_Witness ==
    /\ this.model_.nvarb = 2
    /\ last.dims = <<MaxVar, 0, MaxCon>>
    /\ last.op = "solve"
    /\ last.status = GRB_INFEASIBLE
    /\ Size(this.ineqvars_) = MaxVar * MaxCon
    /\ Size(this.eqvars_) = 0

\* the place of an accessor's vector in last.fetched
FetchedPlace(op) ==
    IF op = "result" THEN 1 ELSE IF op = "dual_eq" THEN 2 ELSE 3

\* C8: an accessor that returns hands out what the solver produced in a
\* successful solve() made after the most recent problem(); a freshly
\* constructed object has status 0, iter 0, success() false and throwing
\* accessors.
C8_ReturnedIsSolvedSinceProblem ==
    /\ (call.op \in Accessors /\ ~call.ret.threw) =>
          /\ last.op = "solve"
          /\ Len(last.fetched) = 3
          /\ call.ret.value = last.fetched[FetchedPlace(call.op)]
    /\ last.op = "new" =>
          /\ status(this) = 0 /\ iter(this) = 0 /\ ~success(this)
          /\ result(this).threw /\ dual_eq(this).threw /\ dual_ineq(this).threw

\* the fields of the adapter a failed solve() may not touch
KeptOnFailure ==
    {"Q_", "C_", "Beq_", "Bineq_", "X_", "Yeq_", "Yineq_",
     "nrvar_", "nreq_", "nrineq_", "vars_", "eqconstr_", "ineqconstr_",
     "lvars_", "rvars_", "eqvars_", "ineqvars_"}

\* C9: a solve() whose status is neither OPTIMAL nor SUBOPTIMAL changes only
\* status_ and iter_ of the adapter (and the solver model), X_, Yeq_ and
\* Yineq_ stay as they were and the accessors throw; a solve() whose status
\* is OPTIMAL or SUBOPTIMAL overwrites the three with the solver's primal
\* values and the duals of the equality and inequality constraints.
C9_FailedSolveKeepsVectors ==
    [][call'.op = "solve" =>
          IF last'.status \in Successful
          THEN /\ this'.X_ = last'.fetched[1]
               /\ this'.Yeq_ = last'.fetched[2]
               /\ this'.Yineq_ = last'.fetched[3]
               /\ \A f \in KeptOnFailure \ {"X_", "Yeq_", "Yineq_"} : this'[f] = this[f]
          ELSE /\ \A f \in KeptOnFailure : this'[f] = this[f]
               /\ this'.status_ = last'.status
               /\ this'.iter_ = last'.iter
               /\ result(this').threw
               /\ dual_eq(this').threw
               /\ dual_ineq(this').threw]_vars

C9_Witness ==
    /\ call.op = "solve"
    /\ last.status = GRB_INFEASIBLE
    /\ last.dims = <<1, 1, 1>>
    /\ this.X_[0] = 1
    /\ this.iter_ = 0

\* C10: the dense and the sparse object, configured alike and given the
\* same data, hand the solver the same model at every optimize call.
C10_DenseSparseSameModel ==
    last.op = "solve" => Handed(this.model_) = Handed(peer.model_)

====
